---- MODULE Spec2Model ----
(***************************************************************************)
(* slogkit.ContextHandler (src/slogkit/context_handler.go): a slog.Handler *)
(* decorator that enriches a record with the caller location and with      *)
(* attributes extracted from the context, then delegates to the wrapped    *)
(* text/JSON handler ("the sink").                                         *)
(*                                                                         *)
(* The wrapped sink is log/slog's built-in handler.  It is modelled by     *)
(* what it keeps (minimum level, preformatted attributes, open groups) and *)
(* by the attributes of the line it writes; the byte encoding of a line    *)
(* (UseJson) and the choice of writer are left out.  An emitted line is a  *)
(* sequence of entries [path, key, kind, val], path being the groups the   *)
(* key nests under.                                                        *)
(***************************************************************************)
EXTENDS Integers, Sequences, FiniteSets, TLC

VARIABLES
    options,        \* the ContextHandlerOptions given to NewContextHandler
    handlers,       \* every ContextHandler value created so far; handlers[1] is the constructed one
    chain,          \* history: chain[i] is the derivation that produced handlers[i]
    defaultLogger,  \* 0: slog's initial default logger; 1: slog.SetDefault(slog.New(handlers[1]))
    stk,            \* per goroutine, the Handle calls in progress, innermost last
    done,           \* per goroutine, the outcome of its last completed call
    out,            \* the lines the sink wrote to the handler's Writer
    stderr,         \* the records slog's initial default logger wrote
    env             \* the application: its goroutines and the calls it makes

vars == <<options, handlers, chain, defaultLogger, stk, done, out, stderr, env>>

----------------------------------------------------------------------------
(* Bounds and constants *)

MaxHandlers == 3

DefaultCallerSkip == 3
LevelInfo == 0
LevelWarn == 4
LevelError == 8
Getpid == 4242

Procs == {"g1", "g2"}
Contexts == {"background", "todo", "request"}
GroupNames == {"g"}
StaticAttrs == {<<[key |-> "static", kind |-> "String", val |-> "x"]>>}

----------------------------------------------------------------------------
(* slog values *)

SlogString(k, s) == [key |-> k, kind |-> "String", val |-> s]

SlogInt(k, n) == [key |-> k, kind |-> "Int64", val |-> ToString(n)]

Record(level, msg, attrs) == [level |-> level, msg |-> msg, attrs |-> attrs]

AddAttrs(r, attrs) == [r EXCEPT !.attrs = @ \o attrs]

----------------------------------------------------------------------------
(* The wrapped sink: slog.NewTextHandler / slog.NewJSONHandler *)

NewSink(level) == [level |-> level, pre |-> <<>>, groups |-> <<>>]

Entries(path, attrs) ==
    [i \in 1..Len(attrs) |->
        [path |-> path, key |-> attrs[i].key, kind |-> attrs[i].kind, val |-> attrs[i].val]]

SinkEnabled(s, level) == level >= s.level

SinkWithAttrs(s, attrs) ==
    IF Len(attrs) = 0 THEN s ELSE [s EXCEPT !.pre = @ \o Entries(s.groups, attrs)]

SinkWithGroup(s, name) == [s EXCEPT !.groups = Append(@, name)]

SinkHandle(s, r) ==
    [level |-> r.level, msg |-> r.msg, attrs |-> s.pre \o Entries(s.groups, r.attrs)]

----------------------------------------------------------------------------
(* NewContextHandler *)

PidKeyOf(o) == IF o.PIDKey # "" THEN o.PIDKey ELSE "pid"

NewContextHandler(o) ==
    LET base == NewSink(o.Level)
        withPid == IF o.WithPID
                   THEN SinkWithAttrs(base, <<SlogInt(PidKeyOf(o), Getpid)>>)
                   ELSE base
        withExtra == IF Len(o.ExtraAttrs) > 0
                     THEN SinkWithAttrs(withPid, o.ExtraAttrs)
                     ELSE withPid
    IN  [type |-> "ContextHandler",
         Handler |-> withExtra,
         AddSource |-> o.AddSource,
         SourceKey |-> o.SourceKey,
         CallerSkip |-> o.CallerSkip,
         AppendAttrFromContext |-> o.AppendAttrFromContext]

----------------------------------------------------------------------------
(* Enabled, WithAttrs, WithGroup *)

\* mutant: the decorator answers the level check itself
EnabledAlways(h, level) == TRUE

Enabled(h, level) == SinkEnabled(h.Handler, level)

\* mutant: the embedded handler's WithAttrs is promoted, returning the bare sink
WithAttrsBareSink(h, attrs) ==
    [type |-> "TextHandler",
     Handler |-> SinkWithAttrs(h.Handler, attrs),
     AddSource |-> FALSE,
     SourceKey |-> "",
     CallerSkip |-> 0,
     AppendAttrFromContext |-> "nil"]

\* mutant: the attributes are baked as if no group were open
WithAttrsUngrouped(h, attrs) ==
    [type |-> "ContextHandler",
     Handler |-> [h.Handler EXCEPT !.pre = @ \o Entries(<<>>, attrs)],
     AddSource |-> h.AddSource,
     SourceKey |-> h.SourceKey,
     CallerSkip |-> h.CallerSkip,
     AppendAttrFromContext |-> h.AppendAttrFromContext]

WithAttrs(h, attrs) ==
    [type |-> "ContextHandler",
     Handler |-> SinkWithAttrs(h.Handler, attrs),
     AddSource |-> h.AddSource,
     SourceKey |-> h.SourceKey,
     CallerSkip |-> h.CallerSkip,
     AppendAttrFromContext |-> h.AppendAttrFromContext]

\* mutant: the derived handler wraps a fresh sink that opens the group
WithGroupFreshSink(h, name) ==
    [type |-> "ContextHandler",
     Handler |-> SinkWithGroup(NewSink(h.Handler.level), name),
     AddSource |-> h.AddSource,
     SourceKey |-> h.SourceKey,
     CallerSkip |-> h.CallerSkip,
     AppendAttrFromContext |-> h.AppendAttrFromContext]

WithGroup(h, name) ==
    [type |-> "ContextHandler",
     Handler |-> SinkWithGroup(h.Handler, name),
     AddSource |-> h.AddSource,
     SourceKey |-> h.SourceKey,
     CallerSkip |-> h.CallerSkip,
     AppendAttrFromContext |-> h.AppendAttrFromContext]

----------------------------------------------------------------------------
(* The goroutine stack seen by runtime.Caller: callers[n] is the frame n    *)
(* levels above Handle.                                                     *)

UserFrames(n) == [i \in 1..n |-> [file |-> "main.go", line |-> 10 + i]]

\* logger.Log(ctx, level, msg, attrs...): Logger.log and Logger.Log sit
\* between the application and Handle.
LoggerFrames ==
    <<[file |-> "log/slog/logger.go", line |-> 257],
      [file |-> "log/slog/logger.go", line |-> 230]>>

\* slog.Error called at context_handler.go:105: Logger.log, slog.Error, then
\* the Handle that reported the failure.
DiagFrames ==
    <<[file |-> "log/slog/logger.go", line |-> 257],
      [file |-> "log/slog/logger.go", line |-> 300],
      [file |-> "slogkit/context_handler.go", line |-> 105]>>

\* runtime.Caller(skip) reports ok iff the stack has a frame at that depth.
CallerOk(callers, skip) == skip >= 1 /\ skip <= Len(callers)

----------------------------------------------------------------------------
(* Handle *)

\* mutant: CallerSkip is used as given, without the default
EffectiveSkipAsGiven(h) == h.CallerSkip

EffectiveSkip(h) == IF h.CallerSkip = 0 THEN DefaultCallerSkip ELSE h.CallerSkip

SourceKeyOf(h) == IF h.SourceKey # "" THEN h.SourceKey ELSE "source"

\* fmt.Sprintf("%s:%d", file, line)
Sprintf(file, line) == file \o ":" \o ToString(line)

AddSourceAttr(h, r, callers) ==
    IF h.AddSource
    THEN LET skip == EffectiveSkip(h)
         IN  IF CallerOk(callers, skip)
             THEN AddAttrs(r, <<SlogString(SourceKeyOf(h),
                                   Sprintf(callers[skip].file, callers[skip].line))>>)
             ELSE r
    ELSE r

\* mutant: the comparison with context.Background() never matches
IsBackgroundNever(ctx) == FALSE

IsBackground(ctx) == ctx = "background"

\* The extractors the application configures: "ok" returns the request id of
\* the context and a user id; "fail" returns the same attributes together with
\* an error.
CtxValue(ctx) == IF ctx = "request" THEN "req-123" ELSE ""

ExtractorAttrs(fn, ctx) ==
    <<SlogString("request_id", CtxValue(ctx)), SlogString("user_id", "user-1")>>

ExtractorFails(fn, ctx) == fn = "fail"

InvokesExtractor(h, ctx) == ~IsBackground(ctx) /\ h.AppendAttrFromContext # "nil"

NeedsDiag(h, ctx) ==
    InvokesExtractor(h, ctx) /\ ExtractorFails(h.AppendAttrFromContext, ctx)

\* mutant: the returned attributes are put in front of the record's own
AppendContextAttrsInFront(h, ctx, r) ==
    IF ~InvokesExtractor(h, ctx) THEN r
    ELSE IF ExtractorFails(h.AppendAttrFromContext, ctx) THEN r
    ELSE [r EXCEPT !.attrs = ExtractorAttrs(h.AppendAttrFromContext, ctx) \o @]

\* mutant: the returned attributes are appended whatever the error
AppendContextAttrsDespiteError(h, ctx, r) ==
    IF ~InvokesExtractor(h, ctx) THEN r
    ELSE AddAttrs(r, ExtractorAttrs(h.AppendAttrFromContext, ctx))

AppendContextAttrs(h, ctx, r) ==
    IF ~InvokesExtractor(h, ctx) THEN r
    ELSE IF ExtractorFails(h.AppendAttrFromContext, ctx) THEN r
    ELSE AddAttrs(r, ExtractorAttrs(h.AppendAttrFromContext, ctx))

\* mutant: the extractor's error is returned to the caller
HandleReturnExtractErr(sinkErr, extractFailed) ==
    IF extractFailed THEN "context error" ELSE sinkErr

\* return h.Handler.Handle(ctx, r)
HandleReturn(sinkErr, extractFailed) == sinkErr

DiagRecord ==
    Record(LevelError, "failed to append attributes from context",
           <<SlogString("error", "context error")>>)

----------------------------------------------------------------------------
(* Calls in progress *)

Idle == [pc |-> "idle"]

NewFrame(i, ctx, r, callers, via) ==
    [h |-> i, ctx |-> ctx, r0 |-> r, r |-> r, callers |-> callers, via |-> via,
     pc |-> "enrich", nExtract |-> 0, nDiag |-> 0, nSink |-> 0,
     diagTo |-> "none", sinkRet |-> "none", ret |-> "none"]

Top(p) == stk[p][Len(stk[p])]

SetTop(p, f) == [stk EXCEPT ![p] = [@ EXCEPT ![Len(@)] = f]]

Push(p, f) == [stk EXCEPT ![p] = Append(@, f)]

Pop(p) == [stk EXCEPT ![p] = SubSeq(@, 1, Len(@) - 1)]

\* A goroutine starts a call when it has none in progress; the application
\* has read the outcome of the last calls and drained what they wrote.
CanStart(p) ==
    /\ p \in env.procs
    /\ stk[p] = <<>>
    /\ done[p] = Idle
    /\ out = <<>>
    /\ stderr = <<>>

----------------------------------------------------------------------------
(* Actions *)

\* slog.New(handlers[i]).Log(ctx, level, "msg", attrs...): Logger.log asks
\* Enabled first and builds the record only when it answers true.
LoggerLog(p, i, ctx, level, attrs, n) ==
    /\ CanStart(p)
    /\ LET f == NewFrame(i, ctx, Record(level, "msg", attrs),
                         LoggerFrames \o UserFrames(n), "logger")
       IN  IF Enabled(handlers[i], level)
           THEN /\ stk' = Push(p, f)
                /\ done' = [done EXCEPT ![p] = Idle]
           ELSE /\ stk' = stk
                /\ done' = [done EXCEPT ![p] = [f EXCEPT !.pc = "dropped"]]
    /\ UNCHANGED <<options, handlers, chain, defaultLogger, out, stderr, env>>

\* handlers[i].Handle(ctx, r) called by the application itself
HandleCall(p, i, ctx, level, attrs, n) ==
    /\ CanStart(p)
    /\ stk' = Push(p, NewFrame(i, ctx, Record(level, "msg", attrs), UserFrames(n), "direct"))
    /\ done' = [done EXCEPT ![p] = Idle]
    /\ UNCHANGED <<options, handlers, chain, defaultLogger, out, stderr, env>>

\* Handle up to the extractor's return
HandleEnrich(p) ==
    /\ stk[p] # <<>>
    /\ Top(p).pc = "enrich"
    /\ LET f == Top(p)
           h == handlers[f.h]
           r1 == AddSourceAttr(h, f.r, f.callers)
       IN  stk' = SetTop(p, [f EXCEPT
                   !.r = AppendContextAttrs(h, f.ctx, r1),
                   !.nExtract = IF InvokesExtractor(h, f.ctx) THEN @ + 1 ELSE @,
                   !.pc = IF NeedsDiag(h, f.ctx) THEN "diag" ELSE "sink"])
    /\ UNCHANGED <<options, handlers, chain, defaultLogger, done, out, stderr, env>>

\* mutant: the diagnostic is logged with the caller's context
\* (slog.ErrorContext(ctx, ...))
HandleDiagWithContext(p) ==
    /\ stk[p] # <<>>
    /\ Top(p).pc = "diag"
    /\ LET f == [Top(p) EXCEPT !.pc = "sink", !.nDiag = @ + 1]
       IN  IF defaultLogger = 0
           THEN /\ stderr' = Append(stderr, DiagRecord)
                /\ stk' = SetTop(p, [f EXCEPT !.diagTo = "stderr"])
           ELSE /\ stderr' = stderr
                /\ stk' = [stk EXCEPT ![p] =
                       Append([@ EXCEPT ![Len(@)] = [f EXCEPT !.diagTo = "handler"]],
                              NewFrame(defaultLogger, f.ctx, DiagRecord,
                                       DiagFrames \o f.callers, "diag"))]
    /\ UNCHANGED <<options, handlers, chain, defaultLogger, done, out, env>>

\* slog.Error("failed to append attributes from context", ...): the default
\* logger asks its handler's Enabled and calls its Handle with
\* context.Background().
HandleDiag(p) ==
    /\ stk[p] # <<>>
    /\ Top(p).pc = "diag"
    /\ LET f == [Top(p) EXCEPT !.pc = "sink", !.nDiag = @ + 1]
       IN  IF defaultLogger = 0
           THEN /\ stderr' = Append(stderr, DiagRecord)
                /\ stk' = SetTop(p, [f EXCEPT !.diagTo = "stderr"])
           ELSE /\ stderr' = stderr
                /\ IF Enabled(handlers[defaultLogger], LevelError)
                   THEN stk' = [stk EXCEPT ![p] =
                            Append([@ EXCEPT ![Len(@)] = [f EXCEPT !.diagTo = "handler"]],
                                   NewFrame(defaultLogger, "background", DiagRecord,
                                            DiagFrames \o f.callers, "diag"))]
                   ELSE stk' = SetTop(p, [f EXCEPT !.diagTo = "disabled"])
    /\ UNCHANGED <<options, handlers, chain, defaultLogger, done, out, env>>

\* return h.Handler.Handle(ctx, r): the sink formats the record and writes
\* the line; err is what the Writer answers.
HandleSink(p, err) ==
    /\ stk[p] # <<>>
    /\ Top(p).pc = "sink"
    /\ LET f == Top(p)
           h == handlers[f.h]
           line == [line |-> SinkHandle(h.Handler, f.r), h |-> f.h, proc |-> p,
                    ctx |-> f.ctx, r0 |-> f.r0, callers |-> f.callers, via |-> f.via]
       IN  /\ out' = IF err = "nil" THEN Append(out, line) ELSE out
           /\ stk' = Pop(p)
           /\ done' = IF Len(stk[p]) = 1
                      THEN [done EXCEPT ![p] = [f EXCEPT
                               !.pc = "returned",
                               !.nSink = @ + 1,
                               !.sinkRet = err,
                               !.ret = HandleReturn(err, NeedsDiag(h, f.ctx))]]
                      ELSE done
    /\ UNCHANGED <<options, handlers, chain, defaultLogger, stderr, env>>

\* Derivations extend the newest handler (logger = logger.With(...)), up to
\* MaxHandlers handlers.
DeriveWithAttrs(i, attrs) ==
    /\ Len(handlers) < MaxHandlers
    /\ i = Len(handlers)
    /\ handlers' = Append(handlers, WithAttrs(handlers[i], attrs))
    /\ chain' = Append(chain, Append(chain[i], [op |-> "attrs", attrs |-> attrs]))
    /\ UNCHANGED <<options, defaultLogger, stk, done, out, stderr, env>>

\* mutant: the group is opened on the receiver's own sink
DeriveWithGroupInPlace(i, name) ==
    /\ Len(handlers) < MaxHandlers
    /\ i = Len(handlers)
    /\ handlers' = Append([handlers EXCEPT ![i] = WithGroup(@, name)],
                          WithGroup(handlers[i], name))
    /\ chain' = Append(chain, Append(chain[i], [op |-> "group", name |-> name]))
    /\ UNCHANGED <<options, defaultLogger, stk, done, out, stderr, env>>

DeriveWithGroup(i, name) ==
    /\ Len(handlers) < MaxHandlers
    /\ i = Len(handlers)
    /\ handlers' = Append(handlers, WithGroup(handlers[i], name))
    /\ chain' = Append(chain, Append(chain[i], [op |-> "group", name |-> name]))
    /\ UNCHANGED <<options, defaultLogger, stk, done, out, stderr, env>>

\* slog.SetDefault(slog.New(handler)) on the constructed handler (README.md)
SetDefault ==
    /\ defaultLogger = 0
    /\ defaultLogger' = 1
    /\ UNCHANGED <<options, handlers, chain, stk, done, out, stderr, env>>

\* The application reads and empties what was written (buf.Reset()).
Reset ==
    /\ \A p \in Procs : stk[p] = <<>>
    /\ \E p \in Procs : done[p] # Idle
    /\ out' = <<>>
    /\ stderr' = <<>>
    /\ done' = [p \in Procs |-> Idle]
    /\ UNCHANGED <<options, handlers, chain, defaultLogger, stk, env>>

----------------------------------------------------------------------------
(* Specifications *)

\* The configurations checked.  Every option takes each of its values; the
\* options that decide the control flow of Handle are combined freely in
\* FlowOptions, those that decide the attributes of a line in AttrOptions.
AllOptions ==
    [WithPID : BOOLEAN, PIDKey : {"", "process_id"},
     AddSource : BOOLEAN, SourceKey : {"", "file_location"},
     CallerSkip : {0, 4},
     Level : {LevelInfo, LevelWarn},
     ExtraAttrs : {<<>>, <<SlogString("service", "test")>>},
     AppendAttrFromContext : {"nil", "ok", "fail"}]

FlowOptions ==
    {o \in AllOptions :
        /\ ~o.WithPID /\ o.PIDKey = ""
        /\ o.SourceKey = "" /\ o.CallerSkip = 0
        /\ o.ExtraAttrs = <<>>}

AttrOptions ==
    {o \in AllOptions :
        /\ o.Level = LevelInfo /\ o.AppendAttrFromContext = "ok"
        /\ ~o.WithPID => o.PIDKey = ""
        /\ ~o.AddSource => (o.SourceKey = "" /\ o.CallerSkip = 0)}

Options == FlowOptions \cup AttrOptions

ConcOptions ==
    {o \in FlowOptions :
        /\ o.AddSource /\ o.Level = LevelInfo
        /\ o.AppendAttrFromContext # "nil"}

SeqEnv ==
    [procs |-> {"g1"}, ctxs |-> Contexts, levels |-> {LevelInfo, LevelWarn},
     attrs |-> {<<SlogString("k", "v")>>}, stacks |-> {1, 3}]

ConcEnv ==
    [procs |-> Procs, ctxs |-> {"background", "request"}, levels |-> {LevelInfo},
     attrs |-> {<<SlogString("k", "v")>>}, stacks |-> {3}]

InitWith(opts, e) ==
    /\ options \in opts
    /\ handlers = <<NewContextHandler(options)>>
    /\ chain = << <<>> >>
    /\ defaultLogger = 0
    /\ stk = [p \in Procs |-> <<>>]
    /\ done = [p \in Procs |-> Idle]
    /\ out = <<>>
    /\ stderr = <<>>
    /\ env = e

Init == InitWith(Options, SeqEnv)

InitConc == InitWith(ConcOptions, ConcEnv)

Next ==
    \/ \E p \in Procs, i \in DOMAIN handlers, ctx \in env.ctxs, level \in env.levels,
          attrs \in env.attrs, n \in env.stacks :
          LoggerLog(p, i, ctx, level, attrs, n)
    \/ \E p \in Procs, i \in DOMAIN handlers, ctx \in env.ctxs, level \in env.levels,
          attrs \in env.attrs, n \in env.stacks :
          HandleCall(p, i, ctx, level, attrs, n)
    \/ \E p \in Procs : HandleEnrich(p)
    \/ \E p \in Procs : HandleDiag(p)
    \/ \E p \in Procs, err \in {"nil", "EIO"} : HandleSink(p, err)
    \/ \E i \in DOMAIN handlers, attrs \in StaticAttrs : DeriveWithAttrs(i, attrs)
    \/ \E i \in DOMAIN handlers, name \in GroupNames : DeriveWithGroup(i, name)
    \/ SetDefault
    \/ Reset

Spec == Init /\ [][Next]_vars

SpecConc == InitConc /\ [][Next]_vars

\* Handle runs synchronously on its goroutine: a call in progress takes its
\* next step, and the Writer answers every write.
Fairness ==
    \A p \in Procs :
        /\ WF_vars(HandleEnrich(p))
        /\ WF_vars(HandleDiag(p))
        /\ WF_vars(\E err \in {"nil", "EIO"} : HandleSink(p, err))

LiveEnv ==
    [procs |-> {"g1"}, ctxs |-> Contexts, levels |-> {LevelInfo},
     attrs |-> {<<SlogString("k", "v")>>}, stacks |-> {3}]

InitLive == InitWith(FlowOptions, LiveEnv)

SpecLive == InitLive /\ [][Next]_vars /\ Fairness

----------------------------------------------------------------------------
(* Properties *)

HasKey(entries, k) == \E n \in DOMAIN entries : entries[n].key = k

Returned(p) == done[p].pc = "returned"

Lines == {out[n] : n \in DOMAIN out}

DiagLines == {n \in DOMAIN out : out[n].via = "diag"}

\* The groups a handler derived along chain c has open
GroupsOf(c) ==
    LET gs == SelectSeq(c, LAMBDA o : o.op = "group")
    IN  [n \in 1..Len(gs) |-> gs[n].name]

\* C1: with an extractor configured, a Handle call with context.Background()
\* (on the constructed handler or on any derived one) never invokes the
\* extractor, appends no attribute of the extractor to the record, and still
\* delegates the record to the sink.
C1_BackgroundSkipsExtractor ==
    /\ \A p \in Procs : \A n \in DOMAIN stk[p] :
          stk[p][n].ctx = "background" =>
              /\ stk[p][n].nExtract = 0
              /\ ~HasKey(stk[p][n].r.attrs, "request_id")
    /\ \A p \in Procs :
          (Returned(p) /\ done[p].ctx = "background") =>
              /\ done[p].nExtract = 0
              /\ ~HasKey(done[p].r.attrs, "request_id")
              /\ done[p].nSink = 1
    /\ \A l \in Lines :
          l.ctx = "background" => ~HasKey(l.line.attrs, "request_id")

C1_Witness ==
    \E p \in Procs :
        /\ Returned(p)
        /\ done[p].ctx = "background"
        /\ handlers[done[p].h].AppendAttrFromContext = "ok"
        /\ Len(chain[done[p].h]) = 2
        /\ \E l \in Lines : l.proc = p /\ l.via = "logger"

C4_DiagnosticAvoidsHandler ==
    \A p \in Procs : \A m, n \in DOMAIN stk[p] :
        m < n => stk[p][m].h # stk[p][n].h

\* C5: with WithPID, every line written through the constructed handler or
\* any derived one carries, outside every group, the key PIDKey ("pid" when
\* PIDKey is empty) with the process id.
C5_PidInEveryLine ==
    options.WithPID =>
        \A l \in Lines :
            \E n \in DOMAIN l.line.attrs :
                /\ l.line.attrs[n].key =
                       (IF options.PIDKey = "" THEN "pid" ELSE options.PIDKey)
                /\ l.line.attrs[n].path = <<>>
                /\ l.line.attrs[n].kind = "Int64"
                /\ l.line.attrs[n].val = ToString(Getpid)

C5_Witness ==
    /\ options.WithPID
    /\ options.PIDKey = "process_id"
    /\ \E l \in Lines :
          /\ Len(chain[l.h]) = 2
          /\ GroupsOf(chain[l.h]) # <<>>

SourceKeyName == IF options.SourceKey = "" THEN "source" ELSE options.SourceKey

SkipDepth == IF options.CallerSkip = 0 THEN DefaultCallerSkip ELSE options.CallerSkip

\* The call site runtime.Caller(skip) finds for the call that wrote line l
Resolved(l) == SkipDepth <= Len(l.callers)

SourceEntry(l, e) ==
    /\ e.key = SourceKeyName
    /\ e.kind = "String"
    /\ e.path = GroupsOf(chain[l.h])
    /\ e.val = l.callers[SkipDepth].file \o ":" \o ToString(l.callers[SkipDepth].line)

\* C6 (as claimed): with AddSource, every line written, for every context
\* and every derived handler, carries the key SourceKey ("source" when
\* SourceKey is empty).
C6_SourceInEveryLine ==
    options.AddSource =>
        \A l \in Lines : HasKey(l.line.attrs, SourceKeyName)

\* C6 (amended): with AddSource, a line carries the key SourceKey ("source"
\* when SourceKey is empty) with the value "<file>:<line>" of the frame
\* CallerSkip (3 when 0) levels above Handle exactly when the goroutine stack
\* has such a frame; the attribute nests under the groups the handler has
\* open, like the record's own attributes.  When the stack is shallower the
\* line carries no source attribute.
C6_SourceWhenResolved ==
    options.AddSource =>
        \A l \in Lines :
            IF Resolved(l)
            THEN \E n \in DOMAIN l.line.attrs : SourceEntry(l, l.line.attrs[n])
            ELSE ~HasKey(l.line.attrs, SourceKeyName)

C6_Witness ==
    /\ options.AddSource
    /\ options.SourceKey = "file_location"
    /\ \E l \in Lines :
          /\ Resolved(l)
          /\ l.ctx = "request"
          /\ GroupsOf(chain[l.h]) = <<"g">>

\* Where the sink puts the attributes of a line written by a handler derived
\* along chain c: the record's attributes under every group of c, those
\* baked by WithAttrs under the groups opened before it.
RecordAttrsNested(l) ==
    \A m \in DOMAIN l.r0.attrs :
        \E n \in DOMAIN l.line.attrs :
            /\ l.line.attrs[n].key = l.r0.attrs[m].key
            /\ l.line.attrs[n].val = l.r0.attrs[m].val
            /\ l.line.attrs[n].path = GroupsOf(chain[l.h])

StaticAttrsNested(l) ==
    LET c == chain[l.h]
    IN  \A k \in DOMAIN c :
            c[k].op = "attrs" =>
                \A m \in DOMAIN c[k].attrs :
                    \E n \in DOMAIN l.line.attrs :
                        /\ l.line.attrs[n].key = c[k].attrs[m].key
                        /\ l.line.attrs[n].val = c[k].attrs[m].val
                        /\ l.line.attrs[n].path = GroupsOf(SubSeq(c, 1, k - 1))

PidPresent(l) ==
    options.WithPID =>
        \E n \in DOMAIN l.line.attrs :
            /\ l.line.attrs[n].key = (IF options.PIDKey = "" THEN "pid" ELSE options.PIDKey)
            /\ l.line.attrs[n].path = <<>>

\* C7 (as claimed): in every line, the record's attributes nest under the
\* groups opened by WithGroup, the attributes baked by WithAttrs before a
\* WithGroup stay outside it, and the pid and source attributes (when
\* enabled) are present.
C7_GroupNesting ==
    \A l \in Lines :
        /\ RecordAttrsNested(l)
        /\ StaticAttrsNested(l)
        /\ PidPresent(l)
        /\ options.AddSource => HasKey(l.line.attrs, SourceKeyName)

\* C7 (amended): as claimed, except that the source attribute is present
\* only when the caller lookup succeeds, and then nests under the handler's
\* groups like the record's own attributes; pid stays outside every group.
C7_GroupNestingResolved ==
    \A l \in Lines :
        /\ RecordAttrsNested(l)
        /\ StaticAttrsNested(l)
        /\ PidPresent(l)
        /\ (options.AddSource /\ Resolved(l)) =>
               \E n \in DOMAIN l.line.attrs : SourceEntry(l, l.line.attrs[n])

C7_Witness ==
    /\ options.AddSource
    /\ options.WithPID
    /\ \E l \in Lines :
          /\ chain[l.h] = <<[op |-> "attrs", attrs |-> <<SlogString("static", "x")>>],
                            [op |-> "group", name |-> "g"]>>
          /\ l.r0.attrs = <<SlogString("k", "v")>>
          /\ Resolved(l)
          /\ \E n \in DOMAIN l.line.attrs :
                l.line.attrs[n].key = "k" /\ l.line.attrs[n].path = <<"g">>
          /\ \E n \in DOMAIN l.line.attrs :
                l.line.attrs[n].key = "static" /\ l.line.attrs[n].path = <<>>

C9_DerivationStep ==
    Len(handlers') > Len(handlers) =>
        LET n == Len(handlers)
            new == handlers'[n + 1]
            c == chain'[n + 1]
            last == c[Len(c)]
        IN  /\ Len(handlers') = n + 1
            /\ \A j \in 1..n : handlers'[j] = handlers[j]
            /\ \E i \in 1..n :
                  /\ c = Append(chain[i], last)
                  /\ new.type = "ContextHandler"
                  /\ new.AddSource = handlers[i].AddSource
                  /\ new.SourceKey = handlers[i].SourceKey
                  /\ new.CallerSkip = handlers[i].CallerSkip
                  /\ new.AppendAttrFromContext = handlers[i].AppendAttrFromContext
                  /\ new.Handler = IF last.op = "attrs"
                                   THEN SinkWithAttrs(handlers[i].Handler, last.attrs)
                                   ELSE SinkWithGroup(handlers[i].Handler, last.name)

C9_StillDecorator ==
    \A i \in DOMAIN handlers :
        /\ handlers[i].type = "ContextHandler"
        /\ handlers[i].AddSource = options.AddSource
        /\ handlers[i].SourceKey = options.SourceKey
        /\ handlers[i].CallerSkip = options.CallerSkip
        /\ handlers[i].AppendAttrFromContext = options.AppendAttrFromContext

C9_DerivationPreservesWrapper ==
    [][C9_DerivationStep]_vars /\ []C9_StillDecorator

C9_Witness ==
    /\ Len(handlers) = MaxHandlers
    /\ options.AddSource
    /\ options.AppendAttrFromContext = "ok"
    /\ chain[MaxHandlers][1].op = "attrs"
    /\ chain[MaxHandlers][2].op = "group"

\* What Handle appends to record r, from its own inputs alone: the source
\* attribute when AddSource is set and the caller is found, then the
\* extractor's attributes when the context is not context.Background() and
\* the extractor succeeds.
EnrichedAttrs(h, ctx, r, callers) ==
    LET skip == IF h.CallerSkip = 0 THEN DefaultCallerSkip ELSE h.CallerSkip
        src == IF h.AddSource /\ skip <= Len(callers)
               THEN <<SlogString(IF h.SourceKey = "" THEN "source" ELSE h.SourceKey,
                                 callers[skip].file \o ":" \o ToString(callers[skip].line))>>
               ELSE <<>>
        fromCtx == IF ctx # "background" /\ h.AppendAttrFromContext = "ok"
                   THEN <<SlogString("request_id", IF ctx = "request" THEN "req-123" ELSE ""),
                          SlogString("user_id", "user-1")>>
                   ELSE <<>>
    IN  r.attrs \o src \o fromCtx

C10_NoWriteAfterCreation ==
    \A i \in DOMAIN handlers : handlers'[i] = handlers[i]

C10_OwnInputsOnly ==
    /\ \A p \in Procs : \A n \in DOMAIN stk[p] :
          stk[p][n].pc # "enrich" =>
              stk[p][n].r.attrs = EnrichedAttrs(handlers[stk[p][n].h], stk[p][n].ctx,
                                                stk[p][n].r0, stk[p][n].callers)
    /\ \A l \in Lines :
          l.line.attrs = handlers[l.h].Handler.pre \o
              Entries(handlers[l.h].Handler.groups,
                      EnrichedAttrs(handlers[l.h], l.ctx, l.r0, l.callers))

\* C10: under every interleaving of Handle, Enabled, WithAttrs and WithGroup
\* calls of two goroutines on shared handlers, no field of an existing
\* handler is written after its creation, and what each Handle call appends
\* and emits is determined by its own context, record and call stack and by
\* its handler's fields.
C10_ConcurrentUse ==
    [][C10_NoWriteAfterCreation]_vars /\ []C10_OwnInputsOnly

C10_Witness ==
    /\ Len(handlers) = MaxHandlers
    /\ \A p \in Procs : stk[p] # <<>>
    /\ stk["g1"][1].h = 1 /\ stk["g1"][1].pc = "sink"
    /\ Len(chain[stk["g1"][1].h]) = 0
    /\ stk["g2"][1].pc = "diag"
    /\ \E l \in Lines : l.proc = "g1" /\ l.via = "diag"

\* What a call of goroutine p put on the handler's Writer, without the
\* source-location attribute (a line carries no timestamp here).
StripSource(entries) == SelectSeq(entries, LAMBDA e : e.key # SourceKeyName)

OutputOf(p) ==
    LET mine == SelectSeq(out, LAMBDA l : l.proc = p)
    IN  [n \in 1..Len(mine) |->
            [level |-> mine[n].line.level, msg |-> mine[n].line.msg,
             attrs |-> StripSource(mine[n].line.attrs)]]

\* The Writer accepted every line of p's call.
WriterAccepted(p) ==
    /\ done[p].sinkRet = "nil"
    /\ done[p].diagTo = "handler" => \E l \in Lines : l.proc = p /\ l.via = "diag"

\* C11: two Handle calls on handlers of identical configuration, with equal
\* contexts and equal records, whose writes the Writer accepts alike, put
\* the same lines on the Writer, up to the source-location attribute, and
\* return the same error.
C11_SameOutputForSameInput ==
    \A p, q \in Procs :
        (/\ Returned(p) /\ Returned(q)
         /\ handlers[done[p].h] = handlers[done[q].h]
         /\ done[p].ctx = done[q].ctx
         /\ done[p].r0 = done[q].r0
         /\ WriterAccepted(p) /\ WriterAccepted(q)) =>
            /\ OutputOf(p) = OutputOf(q)
            /\ done[p].ret = done[q].ret

\* The attributes the configured extractors return for context ctx
ExtractorReturns(ctx) ==
    <<SlogString("request_id", IF ctx = "request" THEN "req-123" ELSE ""),
      SlogString("user_id", "user-1")>>

\* Record attributes a of a call with record r0 on handler h and context ctx,
\* once Handle is past the extractor: r0's own attributes first, then at
\* most one source attribute, then the extractor's attributes in the order
\* returned.
AppendedInOrder(h, ctx, r0, a) ==
    LET n0 == Len(r0.attrs)
        n == Len(a)
    IN  /\ n \in {n0 + 2, n0 + 3}
        /\ SubSeq(a, 1, n0) = r0.attrs
        /\ n = n0 + 3 => (h.AddSource /\ a[n0 + 1].key = SourceKeyName)
        /\ SubSeq(a, n - 1, n) = ExtractorReturns(ctx)

C12_Call(f) ==
    LET h == handlers[f.h]
    IN  /\ (f.ctx # "background" /\ h.AppendAttrFromContext # "nil") => f.nExtract = 1
        /\ (f.ctx # "background" /\ h.AppendAttrFromContext = "ok") =>
               AppendedInOrder(h, f.ctx, f.r0, f.r.attrs)
        /\ h.AppendAttrFromContext = "nil" =>
               /\ f.nExtract = 0
               /\ ~HasKey(f.r.attrs, "request_id")
               /\ ~HasKey(f.r.attrs, "user_id")

\* C12: for every context other than context.Background() (context.TODO()
\* included) and a configured extractor, Handle invokes the extractor once
\* with that context and, when it succeeds, appends what it returned, in the
\* order returned, after the record's own attributes and after the source
\* attribute, before the sink is called; without an extractor nothing of a
\* context is appended.
C12_ExtractorAppendsInOrder ==
    /\ \A p \in Procs : \A n \in DOMAIN stk[p] :
          stk[p][n].pc # "enrich" => C12_Call(stk[p][n])
    /\ \A p \in Procs : Returned(p) => C12_Call(done[p])
    /\ \A l \in Lines :
          (l.ctx # "background" /\ handlers[l.h].AppendAttrFromContext = "ok") =>
              LET a == l.line.attrs
                  n == Len(a)
              IN  /\ n >= Len(l.r0.attrs) + 2
                  /\ a[n - 1].key = "request_id"
                  /\ a[n - 1].val = (IF l.ctx = "request" THEN "req-123" ELSE "")
                  /\ a[n].key = "user_id"
                  /\ a[n - 1].path = GroupsOf(chain[l.h])
                  /\ a[n].path = GroupsOf(chain[l.h])

C12_Witness ==
    \E p \in Procs :
        /\ Returned(p)
        /\ done[p].ctx = "todo"
        /\ handlers[done[p].h].AppendAttrFromContext = "ok"
        /\ handlers[done[p].h].AddSource
        /\ Len(done[p].r.attrs) = Len(done[p].r0.attrs) + 3
        /\ \E l \in Lines : l.proc = p /\ l.ctx = "todo"

C13_BoundedNesting ==
    \A p \in Procs :
        /\ Len(stk[p]) <= 2
        /\ \A n \in DOMAIN stk[p] : stk[p][n].nExtract <= 1
        /\ Returned(p) => done[p].nExtract <= 1
        /\ Len(stk[p]) = 2 =>
              /\ stk[p][1].nExtract = 1
              /\ stk[p][1].nDiag = 1
              /\ stk[p][2].via = "diag"
              /\ stk[p][2].ctx = "background"
              /\ stk[p][2].nExtract = 0
              /\ stk[p][2].nDiag = 0

\* C13: every Handle call terminates, also when a logger built on the
\* handler is the default logger and the extractor always fails: the
\* diagnostic re-enters Handle with context.Background(), which skips the
\* extractor, so the extractor runs at most once per original call, at most
\* two Handle calls nest, and the goroutine's stack of Handle calls empties.
C13_HandleTerminates ==
    /\ []C13_BoundedNesting
    /\ \A p \in Procs : (stk[p] # <<>>) ~> (stk[p] = <<>>)

C13_Witness ==
    \E p \in Procs :
        /\ defaultLogger = 1
        /\ handlers[1].AppendAttrFromContext = "fail"
        /\ Len(stk[p]) = 2
        /\ stk[p][1].h = 1 /\ stk[p][2].h = 1
        /\ stk[p][2].pc = "sink"

====
